---------------------------- MODULE Spec2Model ----------------------------
(***************************************************************************)
(* A model of the validation code generator (package validation, and the   *)
(* gen command).  Text is a sequence of tokens: a token is one character   *)
(* wherever the code looks inside a string (brackets, the comma, the       *)
(* space, the star, the first letter of a field name) and a run of         *)
(* characters the code never splits otherwise.  A file's text is a         *)
(* sequence of lines, each a sequence of tokens.                           *)
(***************************************************************************)
EXTENDS Integers, Sequences, FiniteSets, TLC

VARIABLES
    input,          \* the input Go file (its syntax tree, or unparsable)
    fs,             \* the destination file g.OutputFile on disk
    prior,          \* fs as it was when the current run started
    stage,          \* the position of Generate in its pipeline
    err,            \* the error Generate returned ("" for nil)
    PackageName,    \* g.PackageName
    structs,        \* Generate's local structs []StructInfo
    code,           \* the text generateCode returned
    formattedCode,  \* the text format.Source returned
    force,          \* whether this run of the command was given -force
    exit,           \* how the command ended (Nil while it runs)
    run,            \* the number of the current run on this input
    prevExit,       \* how the previous run on this input ended (Nil in the first)
    call,           \* the last call of an emitted validator (Nil before any)
    made,           \* the last call of an emitted constructor (Nil before any)
    procs,          \* the invocations of a batch: each one's Generator and position
    disk            \* the files of a batch, by path

vars == <<input, fs, prior, stage, err, PackageName, structs, code,
          formattedCode, force, exit, run, prevExit, call, made, procs, disk>>

(***************************************************************************)
(* Bounds of the model.                                                    *)
(***************************************************************************)
MaxDecls == 2       \* declarations per generated input file
MaxFields == 2      \* field declarations per generated struct
MaxTParams == 2     \* type-parameter declarations per generated struct
MaxRuns == 2        \* runs of the command on one input
MaxPartial == 1     \* lines a failing write may have transferred
MaxComments == 2    \* comments in a generated doc comment
MaxDepth == 2       \* pointers and arrays around a generated field type

(***************************************************************************)
(* strings: the operations of package strings the generator uses.          *)
(***************************************************************************)
Min(a, b) == IF a < b THEN a ELSE b

HasPrefix(s, p) == Len(p) <= Len(s) /\ SubSeq(s, 1, Len(p)) = p

HasSuffix(s, p) == Len(p) <= Len(s) /\ SubSeq(s, Len(s) - Len(p) + 1, Len(s)) = p

TrimPrefix(s, p) == IF HasPrefix(s, p) THEN SubSeq(s, Len(p) + 1, Len(s)) ELSE s

TrimSuffix(s, p) == IF HasSuffix(s, p) THEN SubSeq(s, 1, Len(s) - Len(p)) ELSE s

\* strings.Index, 1-based; 0 when sub does not occur in s
Index(s, sub) ==
    LET hits == {i \in 1..(Len(s) - Len(sub) + 1) : SubSeq(s, i, i + Len(sub) - 1) = sub}
    IN  IF hits = {} THEN 0 ELSE CHOOSE i \in hits : \A j \in hits : i <= j

Contains(s, sub) == Index(s, sub) # 0

RECURSIVE Split(_, _)
Split(s, sep) ==
    LET i == Index(s, sep)
    IN  IF i = 0 THEN <<s>>
        ELSE <<SubSeq(s, 1, i - 1)>> \o Split(SubSeq(s, i + Len(sep), Len(s)), sep)

RECURSIVE Join(_, _)
Join(parts, sep) ==
    IF Len(parts) = 0 THEN <<>>
    ELSE IF Len(parts) = 1 THEN parts[1]
    ELSE parts[1] \o sep \o Join(Tail(parts), sep)

(***************************************************************************)
(* go/ast: the nodes of the syntax tree the generator reads.               *)
(***************************************************************************)
Nil == [kind |-> "nil"]
Ident(name) == [kind |-> "Ident", name |-> name]
SelectorExpr(x, sel) == [kind |-> "SelectorExpr", x |-> x, sel |-> sel]
StarExpr(x) == [kind |-> "StarExpr", x |-> x]
ArrayType(len, elt) == [kind |-> "ArrayType", len |-> len, elt |-> elt]
MapType(key, value) == [kind |-> "MapType", key |-> key, value |-> value]
InterfaceType == [kind |-> "InterfaceType"]
IndexExpr(x, index) == [kind |-> "IndexExpr", x |-> x, index |-> index]
IndexListExpr(x, indices) == [kind |-> "IndexListExpr", x |-> x, indices |-> indices]
BasicLit(value) == [kind |-> "BasicLit", value |-> value]
FuncType == [kind |-> "FuncType"]
Ellipsis == [kind |-> "Ellipsis"]
StructType(fields) == [kind |-> "StructType", fields |-> fields]
Field(names, type) == [names |-> names, type |-> type]
CommentGroup(list) == [kind |-> "CommentGroup", list |-> list]
FieldList(list) == [kind |-> "FieldList", list |-> list]
TypeSpec(name, typeParams, type) == [name |-> name, typeParams |-> typeParams, type |-> type]
GenDecl(tok, doc, specs) == [kind |-> "GenDecl", tok |-> tok, doc |-> doc, specs |-> specs]
FuncDecl == [kind |-> "FuncDecl"]
File(name, decls) == [ok |-> TRUE, name |-> name, decls |-> decls]
BadFile == [ok |-> FALSE, name |-> <<>>, decls |-> <<>>]

\* ast.IsExported: the name begins with an upper-case letter
UpperCase == {"A", "B", "C", "D", "K", "L", "R", "S", "T", "V"}

IsExported(name) == Len(name) > 0 /\ name[1] \in UpperCase

(***************************************************************************)
(* extractArrayLen, extractType, extractTypeParams, extractTypeParamNames  *)
(***************************************************************************)
extractArrayLen(expr) ==
    IF expr.kind = "BasicLit" THEN expr.value ELSE <<>>

RECURSIVE extractType(_)
RECURSIVE extractTypes(_)
extractType(expr) ==
    CASE expr.kind = "Ident" -> expr.name
      [] expr.kind = "SelectorExpr" -> expr.x.name \o <<".">> \o expr.sel
      [] expr.kind = "StarExpr" -> <<"*">> \o extractType(expr.x)
      [] expr.kind = "ArrayType" ->
            IF expr.len = Nil THEN <<"[", "]">> \o extractType(expr.elt)
            ELSE <<"[">> \o extractArrayLen(expr.len) \o <<"]">> \o extractType(expr.elt)
      [] expr.kind = "MapType" ->
            <<"map", "[">> \o extractType(expr.key) \o <<"]">> \o extractType(expr.value)
      [] expr.kind = "InterfaceType" -> <<"interface", "{", "}">>
      [] expr.kind = "IndexExpr" ->
            extractType(expr.x) \o <<"[">> \o extractType(expr.index) \o <<"]">>
      [] expr.kind = "IndexListExpr" ->
            extractType(expr.x) \o <<"[">>
                \o Join(extractTypes(expr.indices), <<",", " ">>) \o <<"]">>
      [] OTHER -> <<"*", "ast", ".", expr.kind>>

\* the loop of the IndexListExpr case: each index rendered, in order
extractTypes(exprs) ==
    IF Len(exprs) = 0 THEN <<>>
    ELSE <<extractType(exprs[1])>> \o extractTypes(Tail(exprs))

\* the inner loop of extractTypeParams: name + " " + paramType for each name
RECURSIVE paramsOfNames(_, _)
paramsOfNames(names, paramType) ==
    IF Len(names) = 0 THEN <<>>
    ELSE <<names[1] \o <<" ">> \o paramType>> \o paramsOfNames(Tail(names), paramType)

\* the outer loop of extractTypeParams
RECURSIVE paramsOfList(_)
paramsOfList(list) ==
    IF Len(list) = 0 THEN <<>>
    ELSE paramsOfNames(list[1].names, extractType(list[1].type)) \o paramsOfList(Tail(list))

extractTypeParams(typeParams) ==
    <<"[">> \o Join(paramsOfList(typeParams.list), <<",", " ">>) \o <<"]">>

\* the loop of extractTypeParamNames: the first space-separated part of each
RECURSIVE firstParts(_)
firstParts(params) ==
    IF Len(params) = 0 THEN <<>>
    ELSE <<Split(params[1], <<" ">>)[1]>> \o firstParts(Tail(params))

extractTypeParamNames(typeParams) ==
    LET inner == TrimSuffix(TrimPrefix(typeParams, <<"[">>), <<"]">>)
        params == Split(inner, <<",", " ">>)
    IN  <<"[">> \o Join(firstParts(params), <<",", " ">>) \o <<"]">>

(***************************************************************************)
(* hasGenerateDirective                                                    *)
(***************************************************************************)
Directive == <<"//", "go:generate">>

\* a slip: any doc comment counts as the directive
hasGenerateDirective_AnyDoc(commentGroup) == commentGroup # Nil

\* a slip: the directive must begin the comment
hasGenerateDirective_Prefix(commentGroup) ==
    IF commentGroup = Nil THEN FALSE
    ELSE \E i \in 1..Len(commentGroup.list) : HasPrefix(commentGroup.list[i], Directive)

hasGenerateDirective(commentGroup) ==
    IF commentGroup = Nil THEN FALSE
    ELSE \E i \in 1..Len(commentGroup.list) : Contains(commentGroup.list[i], Directive)

(***************************************************************************)
(* Generate, lines 74-150: the structs of the file that carry the          *)
(* directive, each with its exported named fields.                         *)
(***************************************************************************)
FieldInfo(name, type, isPointer) == [Name |-> name, Type |-> type, IsPointer |-> isPointer]

\* lines 128-145: one level of pointer sets IsPointer and is stripped
fieldInfoOf(field) ==
    IF field.type.kind = "StarExpr"
    THEN FieldInfo(field.names[1], extractType(field.type.x), TRUE)
    ELSE FieldInfo(field.names[1], extractType(field.type), FALSE)

\* a slip: the test of the name's first letter is left out
keepsField_NamedOnly(field) == Len(field.names) # 0

\* lines 115-126: whether the loop over the fields keeps this one
keepsField(field) ==
    /\ Len(field.names) # 0
    /\ IsExported(field.names[1])

\* a slip: a record for every exported name of a declaration
RECURSIVE extractFields_AllNames(_)
extractFields_AllNames(list) ==
    IF Len(list) = 0 THEN <<>>
    ELSE SelectSeq([n \in 1..Len(list[1].names) |->
                        fieldInfoOf([list[1] EXCEPT !.names = <<list[1].names[n]>>])],
                   LAMBDA r : IsExported(r.Name))
            \o extractFields_AllNames(Tail(list))

\* lines 115-146: the loop over structType.Fields.List
RECURSIVE extractFields(_)
extractFields(list) ==
    IF Len(list) = 0 THEN <<>>
    ELSE (IF keepsField(list[1]) THEN <<fieldInfoOf(list[1])>> ELSE <<>>)
            \o extractFields(Tail(list))

\* lines 97-103
isGenericSpec(typeSpec) ==
    typeSpec.typeParams # Nil /\ Len(typeSpec.typeParams.list) > 0

\* lines 97-112 and 148
structInfoOf(typeSpec, pkg) ==
    [Name |-> typeSpec.name,
     PackageName |-> pkg,
     Fields |-> extractFields(typeSpec.type.fields),
     TypeParams |-> IF isGenericSpec(typeSpec) THEN extractTypeParams(typeSpec.typeParams)
                    ELSE <<>>,
     IsGeneric |-> isGenericSpec(typeSpec)]

\* lines 87-95: a struct type whose enclosing declaration carries the directive
isEligible(genDecl, typeSpec) ==
    /\ typeSpec.type.kind = "StructType"
    /\ hasGenerateDirective(genDecl.doc)

\* lines 81-149: the loop over genDecl.Specs
RECURSIVE structsOfSpecs(_, _, _)
structsOfSpecs(genDecl, specs, pkg) ==
    IF Len(specs) = 0 THEN <<>>
    ELSE (IF isEligible(genDecl, specs[1]) THEN <<structInfoOf(specs[1], pkg)>> ELSE <<>>)
            \o structsOfSpecs(genDecl, Tail(specs), pkg)

\* lines 75-150: the loop over node.Decls
RECURSIVE structsOfDecls(_, _)
structsOfDecls(decls, pkg) ==
    IF Len(decls) = 0 THEN <<>>
    ELSE (IF decls[1].kind = "GenDecl" /\ decls[1].tok = "type"
          THEN structsOfSpecs(decls[1], decls[1].specs, pkg)
          ELSE <<>>)
            \o structsOfDecls(Tail(decls), pkg)

(***************************************************************************)
(* codeTemplate and generateCode: the text emitted for the structs.        *)
(***************************************************************************)
\* {{if .IsGeneric}}{{.TypeParams}}{{end}}
declParams(s) == IF s.IsGeneric THEN s.TypeParams ELSE <<>>

\* {{if .IsGeneric}}{{extractTypeParamNames .TypeParams}}{{end}}
useParams(s) == IF s.IsGeneric THEN extractTypeParamNames(s.TypeParams) ELSE <<>>

\* line 308
memberLine(f) ==
    <<"\t">> \o f.Name \o <<" ">> \o (IF f.IsPointer THEN <<"*">> ELSE <<>>) \o f.Type

\* line 320
copyLine(f) == <<"\t", "\t">> \o f.Name \o <<":", " ", "params", ".">> \o f.Name \o <<",">>

\* a slip: {{if .IsPointer}} is left out, every member is checked
checkLines_AllFields(f) ==
    << <<"\t", "if", " ", "params", ".">> \o f.Name \o <<" ", "==", " ", "nil", " ", "{">>,
       <<"\t", "\t", "errs", " ", "=", " ", "append", "(", "errs", ",", " ",
         "errors", ".", "New", "(", "\"">> \o f.Name \o <<" is required", "\"", ")", ")">>,
       <<"\t", "}">> >>

\* lines 329-333
checkLines(f) ==
    IF f.IsPointer
    THEN << <<"\t", "if", " ", "params", ".">> \o f.Name \o <<" ", "==", " ", "nil", " ", "{">>,
            <<"\t", "\t", "errs", " ", "=", " ", "append", "(", "errs", ",", " ",
              "errors", ".", "New", "(", "\"">> \o f.Name \o <<" is required", "\"", ")", ")">>,
            <<"\t", "}">> >>
    ELSE <<>>

RECURSIVE memberLines(_)
memberLines(fields) ==
    IF Len(fields) = 0 THEN <<>> ELSE <<memberLine(fields[1])>> \o memberLines(Tail(fields))

RECURSIVE copyLines(_)
copyLines(fields) ==
    IF Len(fields) = 0 THEN <<>> ELSE <<copyLine(fields[1])>> \o copyLines(Tail(fields))

RECURSIVE allCheckLines(_)
allCheckLines(fields) ==
    IF Len(fields) = 0 THEN <<>> ELSE checkLines(fields[1]) \o allCheckLines(Tail(fields))

\* lines 305-310
paramsTypeLines(s) ==
    << <<"// ">> \o s.Name \o <<"Params", " is the parameter struct for creating a ">> \o s.Name,
       <<"type", " ">> \o s.Name \o <<"Params">> \o declParams(s) \o <<" ", "struct", " ", "{">> >>
    \o memberLines(s.Fields)
    \o << <<"}">> >>

\* a slip: the call of the validator is left out
constructorLines_Unchecked(s) ==
    << <<"// ", "New">> \o s.Name \o <<" creates a new ">> \o s.Name,
       <<"func", " ", "New">> \o s.Name \o declParams(s) \o <<"(", "params", " ">> \o s.Name
            \o <<"Params">> \o useParams(s) \o <<")", " ", "(", "*">> \o s.Name \o useParams(s)
            \o <<",", " ", "error", ")", " ", "{">>,
       <<"\t", "return", " ", "&">> \o s.Name \o useParams(s) \o <<"{">> >>
    \o copyLines(s.Fields)
    \o << <<"\t", "}", ",", " ", "nil">>,
          <<"}">> >>

\* lines 312-323
constructorLines(s) ==
    << <<"// ", "New">> \o s.Name \o <<" creates a new ">> \o s.Name,
       <<"func", " ", "New">> \o s.Name \o declParams(s) \o <<"(", "params", " ">> \o s.Name
            \o <<"Params">> \o useParams(s) \o <<")", " ", "(", "*">> \o s.Name \o useParams(s)
            \o <<",", " ", "error", ")", " ", "{">>,
       <<"\t", "if", " ", "err", " ", ":=", " ", "isValid">> \o s.Name \o <<"Params">>
            \o useParams(s) \o <<"(", "params", ")", ";", " ", "err", " ", "!=", " ", "nil", " ", "{">>,
       <<"\t", "\t", "return", " ", "nil", ",", " ", "err">>,
       <<"\t", "}">>,
       <<>>,
       <<"\t", "return", " ", "&">> \o s.Name \o useParams(s) \o <<"{">> >>
    \o copyLines(s.Fields)
    \o << <<"\t", "}", ",", " ", "nil">>,
          <<"}">> >>

\* lines 325-336
validatorLines(s) ==
    << <<"// ", "isValid">> \o s.Name \o <<"Params", " validates the ">> \o s.Name \o <<"Params">>,
       <<"func", " ", "isValid">> \o s.Name \o <<"Params">> \o declParams(s)
            \o <<"(", "params", " ">> \o s.Name \o <<"Params">> \o useParams(s)
            \o <<")", " ", "error", " ", "{">>,
       <<"\t", "var", " ", "errs", " ", "[", "]", "error">> >>
    \o allCheckLines(s.Fields)
    \o << <<"\t", "return", " ", "errors", ".", "Join", "(", "errs", "...", ")">>,
          <<"}">> >>

\* lines 304-337: one pass of {{range .Structs}}
structLines(s) ==
    << <<>> >> \o paramsTypeLines(s) \o << <<>> >> \o constructorLines(s)
        \o << <<>> >> \o validatorLines(s)

\* a slip: the structs are emitted last to first
RECURSIVE allStructLines_Reversed(_)
allStructLines_Reversed(ss) ==
    IF Len(ss) = 0 THEN <<>> ELSE allStructLines_Reversed(Tail(ss)) \o structLines(ss[1])

RECURSIVE allStructLines(_)
allStructLines(ss) ==
    IF Len(ss) = 0 THEN <<>> ELSE structLines(ss[1]) \o allStructLines(Tail(ss))

\* lines 296-303
headerLines(pkg) ==
    << <<"// ", "Code generated by validation-gen; DO NOT EDIT.">>,
       <<>>,
       <<"package", " ">> \o pkg,
       <<>>,
       <<"import", " ", "(">>,
       <<"\t", "\"", "errors", "\"">>,
       <<")">>,
       <<>> >>

\* lines 337-344: the line breaks after {{end}} and around the {{define}}s
trailerLines == << <<>>, <<>>, <<>>, <<>>, <<>>, <<>> >>

generateCode(pkg, ss) == headerLines(pkg) \o allStructLines(ss) \o trailerLines

(***************************************************************************)
(* format.Source: the text is parsed, which fails on a bracket that does   *)
(* not match, and printed in gofmt's layout: no blank line at either end,  *)
(* no two blank lines in a row.                                            *)
(***************************************************************************)
Openers == {"(", "[", "{"}
Closers == {")", "]", "}"}
OpenerOf(c) == CASE c = ")" -> "(" [] c = "]" -> "[" [] c = "}" -> "{"

isComment(line) == Len(line) > 0 /\ line[1] = "// "

\* the concatenation of lines lo..hi
RECURSIVE tokensOf(_, _, _)
tokensOf(lines, lo, hi) ==
    IF lo > hi THEN <<>>
    ELSE IF lo = hi THEN (IF isComment(lines[lo]) THEN <<>> ELSE lines[lo])
    ELSE LET mid == (lo + hi) \div 2
         IN  tokensOf(lines, lo, mid) \o tokensOf(lines, mid + 1, hi)

isBracket(t) == t \in Openers \cup Closers

\* A run of brackets with its matched pairs removed: the closers it leaves
\* unmatched, then the openers; bad when a closer met an opener of another kind.
Reduced(closers, openers, bad) == [closers |-> closers, openers |-> openers, bad |-> bad]

reduceOne(t) ==
    IF t \in Openers THEN Reduced(<<>>, <<t>>, FALSE) ELSE Reduced(<<t>>, <<>>, FALSE)

reduceJoin(l, r) ==
    LET m == Min(Len(l.openers), Len(r.closers))
    IN  Reduced(l.closers \o SubSeq(r.closers, m + 1, Len(r.closers)),
                SubSeq(l.openers, 1, Len(l.openers) - m) \o r.openers,
                \/ l.bad
                \/ r.bad
                \/ \E k \in 1..m :
                      l.openers[Len(l.openers) - k + 1] # OpenerOf(r.closers[k]))

RECURSIVE reduce(_, _, _)
reduce(b, lo, hi) ==
    IF lo > hi THEN Reduced(<<>>, <<>>, FALSE)
    ELSE IF lo = hi THEN reduceOne(b[lo])
    ELSE LET mid == (lo + hi) \div 2
         IN  reduceJoin(reduce(b, lo, mid), reduce(b, mid + 1, hi))

\* every closing bracket closes the last bracket left open, of its own kind,
\* and none is left open
balanced(b) == reduce(b, 1, Len(b)) = Reduced(<<>>, <<>>, FALSE)

formatOK(src) == balanced(SelectSeq(tokensOf(src, 1, Len(src)), isBracket))

\* gofmt keeps every line that is not blank, and one blank line between two
\* of them
RECURSIVE keptLines(_, _, _, _)
keptLines(lines, last, lo, hi) ==
    IF lo > hi THEN <<>>
    ELSE IF lo = hi
         THEN (IF \/ lines[lo] # <<>>
                  \/ lo > 1 /\ lines[lo - 1] # <<>> /\ lo < last
               THEN <<lines[lo]>> ELSE <<>>)
    ELSE LET mid == (lo + hi) \div 2
         IN  keptLines(lines, last, lo, mid) \o keptLines(lines, last, mid + 1, hi)

formatSource(src) ==
    LET filled == {i \in 1..Len(src) : src[i] # <<>>}
        last == IF filled = {} THEN 0 ELSE CHOOSE i \in filled : \A j \in filled : j <= i
    IN  keptLines(src, last, 1, Len(src))

(***************************************************************************)
(* The destination file and os.WriteFile.                                  *)
(***************************************************************************)
Absent == [exists |-> FALSE, content |-> <<>>]
Present(content) == [exists |-> TRUE, content |-> content]

\* a file somebody wrote or edited by hand before the run
OldContent == << <<"// ", "edited by hand">>, <<"package", " ", "old">> >>

\* os.WriteFile opens with O_WRONLY|O_CREATE|O_TRUNC, writes, closes: the open
\* may fail (the file is as it was); once open the file is empty, and a write
\* that fails has transferred some lines short of all of them
writeFileOutcomes(old, data) ==
    {[file |-> Present(data), ok |-> TRUE], [file |-> old, ok |-> FALSE]}
    \cup {[file |-> Present(SubSeq(data, 1, k)), ok |-> FALSE] :
            k \in 0..Min(MaxPartial, Len(data) - 1)}

(***************************************************************************)
(* The command and Generate, one action per stage of the pipeline.         *)
(***************************************************************************)
Exit(n) == [kind |-> "exit", code |-> n]

NoErr == ""
ParseErr == "parsing file"
NoMatchErr == "no structs with go:generate directive found"
FormatErr == "formatting generated code"
WriteErr == "writing output file"

\* main, lines 39-42: a failed Generate ends the command with exit code 1
Fail(e) ==
    /\ stage' = "Failed"
    /\ err' = e
    /\ exit' = Exit(1)

\* main, lines 20-22: -force is no flag of the command, flag.Parse ends it
FlagError ==
    /\ stage = "Idle" /\ exit = Nil /\ force
    /\ exit' = Exit(2)
    /\ UNCHANGED <<input, fs, prior, stage, err, PackageName, structs, code,
                   formattedCode, force, run, prevExit, call, made, procs, disk>>

\* Generate, lines 65-71
ParseOK ==
    /\ stage = "Idle" /\ exit = Nil /\ ~force
    /\ input.ok
    /\ stage' = "Parsed"
    /\ PackageName' = input.name
    /\ UNCHANGED <<input, fs, prior, err, structs, code, formattedCode, force,
                   exit, run, prevExit, call, made, procs, disk>>

\* Generate, lines 66-69
ParseFail ==
    /\ stage = "Idle" /\ exit = Nil /\ ~force
    /\ ~input.ok
    /\ Fail(ParseErr)
    /\ UNCHANGED <<input, fs, prior, PackageName, structs, code, formattedCode,
                   force, run, prevExit, call, made, procs, disk>>

\* Generate, lines 74-150
Extract ==
    /\ stage = "Parsed"
    /\ structs' = structsOfDecls(input.decls, PackageName)
    /\ Len(structs') # 0
    /\ stage' = "Extracted"
    /\ UNCHANGED <<input, fs, prior, err, PackageName, code, formattedCode, force,
                   exit, run, prevExit, call, made, procs, disk>>

\* Generate, lines 152-154
NoMatch ==
    /\ stage = "Parsed"
    /\ structs' = structsOfDecls(input.decls, PackageName)
    /\ Len(structs') = 0
    /\ Fail(NoMatchErr)
    /\ UNCHANGED <<input, fs, prior, PackageName, code, formattedCode, force, run,
                   prevExit, call, made, procs, disk>>

\* Generate, lines 156-160; executing the template on StructInfo values
\* never fails
Render ==
    /\ stage = "Extracted"
    /\ code' = generateCode(PackageName, structs)
    /\ stage' = "Rendered"
    /\ UNCHANGED <<input, fs, prior, err, PackageName, structs, formattedCode,
                   force, exit, run, prevExit, call, made, procs, disk>>

\* Generate, lines 162-166
FormatOK ==
    /\ stage = "Rendered"
    /\ formatOK(code)
    /\ formattedCode' = formatSource(code)
    /\ stage' = "Formatted"
    /\ UNCHANGED <<input, fs, prior, err, PackageName, structs, code, force, exit,
                   run, prevExit, call, made, procs, disk>>

\* a slip: the unformatted text is written when formatting fails
FormatFail_WritesRaw ==
    /\ stage = "Rendered"
    /\ ~formatOK(code)
    /\ Fail(FormatErr)
    /\ fs' = Present(code)
    /\ UNCHANGED <<input, prior, PackageName, structs, code, formattedCode,
                   force, run, prevExit, call, made, procs, disk>>

FormatFail ==
    /\ stage = "Rendered"
    /\ ~formatOK(code)
    /\ Fail(FormatErr)
    /\ UNCHANGED <<input, fs, prior, PackageName, structs, code, formattedCode,
                   force, run, prevExit, call, made, procs, disk>>

\* Generate, lines 168-174, and main, lines 39-44
Write ==
    /\ stage = "Formatted"
    /\ \E o \in writeFileOutcomes(fs, formattedCode) :
        /\ fs' = o.file
        /\ IF o.ok
           THEN stage' = "Written" /\ err' = NoErr /\ exit' = Exit(0)
           ELSE Fail(WriteErr)
    /\ UNCHANGED <<input, prior, PackageName, structs, code, formattedCode, force,
                   run, prevExit, call, made, procs, disk>>

(***************************************************************************)
(* The emitted code, read from the written file: the members of a          *)
(* <Struct>Params type and what a call of isValid<Struct>Params does.      *)
(***************************************************************************)
\* the lines of the block opened by the first line that starts with prefix,
\* up to the line that closes it
blockAfter(text, prefix) ==
    LET starts == {i \in 1..Len(text) : HasPrefix(text[i], prefix)}
        start == CHOOSE i \in starts : \A j \in starts : i <= j
        ends == {i \in (start + 1)..Len(text) : text[i] = <<"}">>}
        end == CHOOSE i \in ends : \A j \in ends : i <= j
    IN  IF starts = {} THEN <<>> ELSE SubSeq(text, start + 1, end - 1)

\* lines 306-310 as emitted: the member lines of type <name>Params
paramsMembers(text, name) ==
    blockAfter(text, <<"type", " ">> \o name \o <<"Params">>)

\* line 308 as emitted: a tab, the member's name, a space, its type
memberName(line) == SubSeq(line, 2, Index(line, <<" ">>) - 1)

memberType(line) == SubSeq(line, Index(line, <<" ">>) + 1, Len(line))

RECURSIVE memberNames(_)
memberNames(lines) ==
    IF Len(lines) = 0 THEN <<>> ELSE <<memberName(lines[1])>> \o memberNames(Tail(lines))

\* lines 327-335 as emitted: the statements of isValid<name>Params
validatorBody(text, name) ==
    blockAfter(text, <<"func", " ", "isValid">> \o name \o <<"Params">>)

IfNilPrefix == <<"\t", "if", " ", "params", ".">>
AppendPrefix == <<"\t", "\t", "errs", " ", "=", " ", "append", "(", "errs", ",", " ",
                  "errors", ".", "New", "(", "\"">>

\* the field an if statement tests
testedMember(line) == SubSeq(line, Len(IfNilPrefix) + 1, Index(line, <<" ", "==">>) - 1)

\* the message of errors.New("...")
newMessage(line) == SubSeq(line, Len(AppendPrefix) + 1, Len(line) - 3)

\* errors.Join: nil when it is given no error
errorsJoin(errs) == IF Len(errs) = 0 THEN Nil ELSE [kind |-> "joinError", errs |-> errs]

\* the statements run in order; inIf is whether the statement is inside an if
\* and taken whether that if's condition held
RECURSIVE runValidator(_, _, _, _, _)
runValidator(body, params, inIf, taken, errs) ==
    IF Len(body) = 0 THEN [errs |-> errs, result |-> Nil, returned |-> FALSE]
    ELSE LET line == body[1]
             rest == Tail(body)
         IN  IF HasPrefix(line, IfNilPrefix)
             THEN runValidator(rest, params, TRUE, params[testedMember(line)] = "zero", errs)
             ELSE IF HasPrefix(line, AppendPrefix)
             THEN runValidator(rest, params, inIf, taken,
                               IF inIf => taken THEN Append(errs, newMessage(line)) ELSE errs)
             ELSE IF line = <<"\t", "}">>
             THEN runValidator(rest, params, FALSE, FALSE, errs)
             ELSE IF HasPrefix(line, <<"\t", "return">>) /\ (inIf => taken)
             THEN [errs |-> errs, result |-> errorsJoin(errs), returned |-> TRUE]
             ELSE runValidator(rest, params, inIf, taken, errs)

\* the names of the structs the written file has a validator for
emittedNames == {structs[i].Name : i \in 1..Len(structs)}

\* isValid<name>Params(params), for a value of every member of the aggregate;
\* one call of the emitted code is followed in a run
CallValidator ==
    /\ stage = "Written"
    /\ call = Nil /\ made = Nil
    /\ \E name \in emittedNames :
        LET members == memberNames(paramsMembers(fs.content, name))
            names == {members[i] : i \in 1..Len(members)}
        IN  \E params \in [names -> {"zero", "set"}] :
                call' = [name |-> name, params |-> params,
                         out |-> runValidator(validatorBody(fs.content, name),
                                              params, FALSE, FALSE, <<>>)]
    /\ UNCHANGED <<input, fs, prior, stage, err, PackageName, structs, code,
                   formattedCode, force, exit, run, prevExit, made, procs, disk>>

(***************************************************************************)
(* What a call of the emitted New<Struct> does, read from the written      *)
(* file.  A value of the aggregate gives every member either nil (the zero *)
(* value) or a value of its own.                                           *)
(***************************************************************************)
IfErrPrefix == <<"\t", "if", " ", "err", " ", ":=", " ", "isValid">>
ReturnErrLine == <<"\t", "\t", "return", " ", "nil", ",", " ", "err">>
ReturnNewPrefix == <<"\t", "return", " ", "&">>
ReturnNewEnd == <<"\t", "}", ",", " ", "nil">>

\* lines 313-322 as emitted: the statements of New<name>
constructorBody(text, name) ==
    blockAfter(text, <<"func", " ", "New">> \o name)

\* line 314 as emitted: the struct whose validator the if statement calls
validatedStruct(line) == SubSeq(line, Len(IfErrPrefix) + 1, Index(line, <<"Params">>) - 1)

\* line 318 as emitted: the struct type of the composite literal
literalType(line) ==
    LET ends == {i \in 1..Len(line) : line[i] \in {"[", "{"}}
    IN  SubSeq(line, Len(ReturnNewPrefix) + 1, (CHOOSE i \in ends : \A j \in ends : i <= j) - 1)

\* line 320 as emitted: the field a line of the literal sets, and the member
\* of params it is set from
fieldSet(line) == SubSeq(line, 3, Index(line, <<":", " ">>) - 1)

memberRead(line) == SubSeq(line, Index(line, <<"params", ".">>) + 2, Len(line) - 1)

\* the aggregate as the validator sees it: which members are nil
nilness(params) == [m \in DOMAIN params |-> IF params[m].isNil THEN "zero" ELSE "set"]

\* the statements run in order; e is the value of err, lit the composite
\* literal built so far (Nil before it is opened), seen the validators called
RECURSIVE runConstructor(_, _, _, _, _, _, _, _)
runConstructor(body, text, params, inIf, taken, e, lit, seen) ==
    IF Len(body) = 0
    THEN [instance |-> Nil, err |-> Nil, returned |-> FALSE, validated |-> seen]
    ELSE LET line == body[1]
             rest == Tail(body)
         IN  IF HasPrefix(line, IfErrPrefix)
             THEN LET v == runValidator(validatorBody(text, validatedStruct(line)),
                                        nilness(params), FALSE, FALSE, <<>>).result
                  IN  runConstructor(rest, text, params, TRUE, v # Nil, v, lit,
                                     Append(seen, validatedStruct(line)))
             ELSE IF line = ReturnErrLine /\ (inIf => taken)
             THEN [instance |-> Nil, err |-> e, returned |-> TRUE, validated |-> seen]
             ELSE IF line = <<"\t", "}">>
             THEN runConstructor(rest, text, params, FALSE, FALSE, e, lit, seen)
             ELSE IF HasPrefix(line, ReturnNewPrefix)
             THEN runConstructor(rest, text, params, inIf, taken, e,
                                 [type |-> literalType(line), fields |-> {}], seen)
             ELSE IF lit # Nil /\ Contains(line, <<"params", ".">>)
             THEN runConstructor(rest, text, params, inIf, taken, e,
                                 [lit EXCEPT !.fields =
                                     @ \cup {<<fieldSet(line), params[memberRead(line)]>>}],
                                 seen)
             ELSE IF lit # Nil /\ line = ReturnNewEnd
             THEN [instance |-> lit, err |-> Nil, returned |-> TRUE, validated |-> seen]
             ELSE runConstructor(rest, text, params, inIf, taken, e, lit, seen)

\* the values of the aggregate: every member nil or holding its own value
aggregates(names) ==
    {[m \in names |-> [isNil |-> m \in nils, of |-> m]] : nils \in SUBSET names}

\* New<name>(params), for a value of every member of the aggregate
CallConstructor ==
    /\ stage = "Written"
    /\ call = Nil /\ made = Nil
    /\ \E name \in emittedNames :
        LET members == memberNames(paramsMembers(fs.content, name))
            names == {members[i] : i \in 1..Len(members)}
        IN  \E params \in aggregates(names) :
                made' = [name |-> name, params |-> params,
                         out |-> runConstructor(constructorBody(fs.content, name), fs.content,
                                                params, FALSE, FALSE, Nil, Nil, <<>>)]
    /\ UNCHANGED <<input, fs, prior, stage, err, PackageName, structs, code,
                   formattedCode, force, exit, run, prevExit, call, procs, disk>>

\* the command is run again on the same input, the destination as it was left
Rerun ==
    /\ exit # Nil
    /\ run < MaxRuns
    /\ run' = run + 1
    /\ prevExit' = exit
    /\ prior' = fs
    /\ force' \in BOOLEAN
    /\ stage' = "Idle"
    /\ err' = NoErr
    /\ exit' = Nil
    /\ PackageName' = <<>>
    /\ structs' = <<>>
    /\ code' = <<>>
    /\ formattedCode' = <<>>
    /\ call' = Nil
    /\ made' = Nil
    /\ UNCHANGED <<input, fs, procs, disk>>

Next ==
    \/ FlagError
    \/ ParseOK
    \/ ParseFail
    \/ Extract
    \/ NoMatch
    \/ Render
    \/ FormatOK
    \/ FormatFail
    \/ Write
    \/ CallValidator
    \/ CallConstructor
    \/ Rerun

InitWith(files) ==
    /\ input \in files
    /\ fs \in {Absent, Present(OldContent)}
    /\ prior = fs
    /\ stage = "Idle"
    /\ err = NoErr
    /\ PackageName = <<>>
    /\ structs = <<>>
    /\ code = <<>>
    /\ formattedCode = <<>>
    /\ force \in BOOLEAN
    /\ exit = Nil
    /\ run = 1
    /\ prevExit = Nil
    /\ call = Nil
    /\ made = Nil
    /\ procs = <<>>
    /\ disk = <<>>

(***************************************************************************)
(* The input files of the model.                                           *)
(***************************************************************************)
\* the sequences of at most n elements of S
RECURSIVE SeqsUpTo(_, _)
SeqsUpTo(S, n) ==
    IF n = 0 THEN {<<>>}
    ELSE LET shorter == SeqsUpTo(S, n - 1)
         IN  shorter \cup {Append(q, x) : q \in shorter, x \in S}

named(n) == Ident(<<n>>)

PlainDoc == CommentGroup(<< <<"// ", "Svc is a service">> >>)
MarkedDoc == CommentGroup(<< <<"// ", "Svc is a service">>,
                             <<"//", "go:generate", " ", "go run ../cmd/gen">> >>)
SpacedDoc == CommentGroup(<< <<"// ", "go:generate", " ", "go run ../cmd/gen">> >>)

SvcFields == <<Field(<< <<"C", "lient">> >>, StarExpr(named("Client"))),
               Field(<< <<"T", "imeout">> >>, named("int"))>>

structDecl(doc, name, typeParams, fields) ==
    GenDecl("type", doc, <<TypeSpec(<<name>>, typeParams, StructType(fields))>>)

KVParams == FieldList(<<Field(<< <<"K">> >>, named("comparable")),
                        Field(<< <<"V">> >>, named("any"))>>)
StoreParams == FieldList(<<Field(<< <<"S">> >>,
                    IndexListExpr(named("Store"), <<named("int"), named("string")>>))>>)

MarkedSvc == structDecl(MarkedDoc, "Svc", Nil, SvcFields)
MarkedCache == structDecl(MarkedDoc, "Cache", KVParams, SvcFields)
MarkedStore == structDecl(MarkedDoc, "Store", StoreParams, SvcFields)

DeclSamples ==
    { FuncDecl,
      GenDecl("var", MarkedDoc, <<>>),
      structDecl(PlainDoc, "Client", Nil, <<>>),
      structDecl(SpacedDoc, "Config", Nil, SvcFields),
      GenDecl("type", MarkedDoc, <<TypeSpec(<<"Logger">>, Nil, InterfaceType)>>),
      MarkedSvc,
      MarkedCache,
      MarkedStore }

Pkg == <<"test">>

\* one file of each kind of run: unparsable, no match, format error, success
BaseFiles ==
    { BadFile, File(Pkg, <<>>), File(Pkg, <<MarkedStore>>), File(Pkg, <<MarkedSvc>>) }

Files == {BadFile} \cup {File(Pkg, decls) : decls \in SeqsUpTo(DeclSamples, MaxDecls)}

Init == InitWith(Files)

Spec == Init /\ [][Next]_vars

\* the sequences of SeqsUpTo(S, n) in which no element occurs twice
DistinctSeqsUpTo(S, n) ==
    {q \in SeqsUpTo(S, n) : \A i, j \in 1..Len(q) : q[i] = q[j] => i = j}

\* the field declarations of the generated structs
FieldDecls ==
    { Field(<< <<"A", "pi">> >>, StarExpr(named("Client"))),
      Field(<< <<"T", "imeout">> >>, named("int")),
      Field(<< <<"c", "Lient">> >>, StarExpr(named("Client"))),
      Field(<<>>, StarExpr(Ident(<<"L", "ogger">>))),
      Field(<< <<"K", "ey">>, <<"V", "al">> >>, StarExpr(named("Item"))),
      Field(<< <<"x">>, <<"R", "etry">> >>, named("int")),
      Field(<< <<"D", "ata">> >>, ArrayType(Nil, named("byte"))),
      Field(<< <<"B", "uf">> >>, StarExpr(StarExpr(named("Buf")))) }

FieldFiles ==
    {File(Pkg, <<structDecl(MarkedDoc, "Svc", Nil, fields)>>) :
        fields \in DistinctSeqsUpTo(FieldDecls, MaxFields)}

InitFields == InitWith(BaseFiles \cup FieldFiles)

SpecFields == InitFields /\ [][Next]_vars

\* the type-parameter declarations of the generated generic structs
TParamDecls ==
    { Field(<< <<"T">> >>, named("any")),
      Field(<< <<"K">> >>, named("comparable")),
      Field(<< <<"A">>, <<"B">> >>, named("any")),
      Field(<< <<"R">> >>, IndexExpr(named("Box"), named("int"))),
      Field(<< <<"S">> >>, IndexListExpr(named("Store"), <<named("int"), named("string")>>)),
      Field(<< <<"V">> >>, InterfaceType) }

GenericFiles ==
    {File(Pkg, <<structDecl(MarkedDoc, "Svc",
                            IF list = <<>> THEN Nil ELSE FieldList(list), SvcFields)>>) :
        list \in DistinctSeqsUpTo(TParamDecls, MaxTParams)}

InitGenerics == InitWith(BaseFiles \cup GenericFiles)

SpecGenerics == InitGenerics /\ [][Next]_vars

\* the comments of the generated doc comments
CommentSamples ==
    { <<"// ", "Svc is a service">>,
      <<"//", "go:generate", " ", "go run ../cmd/gen">>,
      <<"// ", "go:generate", " ", "go run ../cmd/gen">>,
      <<"// ", "run ", "//", "go:generate", " ", "to refresh">>,
      <<"//", "go:generate", "d">>,
      <<"//", "Go:Generate">> }

\* no doc comment, or a group of one comment or more
DocSamples ==
    {Nil} \cup {CommentGroup(list) : list \in SeqsUpTo(CommentSamples, MaxComments) \ {<<>>}}

\* the type specs of one declaration: a struct alone, a group with a struct,
\* an interface and a second struct, an interface alone
SpecSamples ==
    { <<TypeSpec(<<"Svc">>, Nil, StructType(SvcFields))>>,
      <<TypeSpec(<<"Svc">>, Nil, StructType(SvcFields)),
        TypeSpec(<<"Logger">>, Nil, InterfaceType),
        TypeSpec(<<"Cache">>, Nil, StructType(SvcFields))>>,
      <<TypeSpec(<<"Logger">>, Nil, InterfaceType)>> }

DocFiles ==
    {File(Pkg, <<GenDecl("type", doc, specs)>>) : doc \in DocSamples, specs \in SpecSamples}

InitDocs == InitWith(BaseFiles \cup DocFiles)

SpecDocs == InitDocs /\ [][Next]_vars

\* the field types of the generated structs: a type that is no pointer and no
\* array, inside at most d pointers, slices and arrays
BaseTypes ==
    { named("int"),
      SelectorExpr(named("time"), <<"Duration">>),
      InterfaceType,
      FuncType,
      MapType(named("string"), named("int")),
      IndexExpr(named("Box"), named("int")) }

\* the length of an array type: none (a slice), a literal, a constant, ...
LenSamples == {Nil, BasicLit(<<"4">>), named("N"), Ellipsis}

RECURSIVE TypeExprs(_)
TypeExprs(d) ==
    IF d = 0 THEN BaseTypes
    ELSE LET inner == TypeExprs(d - 1)
         IN  inner \cup {StarExpr(t) : t \in inner}
                   \cup {ArrayType(l, t) : l \in LenSamples, t \in inner}

TypeFiles ==
    {File(Pkg, <<structDecl(MarkedDoc, "Svc", Nil, <<Field(<< <<"D", "ata">> >>, t)>>)>>) :
        t \in TypeExprs(MaxDepth)}

InitTypes == InitWith(BaseFiles \cup TypeFiles)

SpecTypes == InitTypes /\ [][Next]_vars

(***************************************************************************)
(* A batch: two invocations of the command, each on its own input path,    *)
(* running at the same time.  A path is a sequence of tokens: names, the   *)
(* separator "/" and the dot ".".                                          *)
(***************************************************************************)
\* the last place of token t in path, 0 when there is none
LastIndex(path, t) ==
    LET hits == {i \in 1..Len(path) : path[i] = t}
    IN  IF hits = {} THEN 0 ELSE CHOOSE i \in hits : \A j \in hits : j <= i

\* filepath.Split: the directory, with its last separator, and the file name
SplitDir(path) == SubSeq(path, 1, LastIndex(path, "/"))

SplitFile(path) == SubSeq(path, LastIndex(path, "/") + 1, Len(path))

\* filepath.Ext: the file name from its last dot on, nothing when it has none
Ext(filename) ==
    IF LastIndex(filename, ".") = 0 THEN <<>>
    ELSE SubSeq(filename, LastIndex(filename, "."), Len(filename))

\* filepath.Join of a directory and a file name, for a directory without ".",
\* ".." or a doubled separator
JoinPath(dir, filename) ==
    IF Len(dir) = 0 THEN filename ELSE TrimSuffix(dir, <<"/">>) \o <<"/">> \o filename

\* main, lines 25-31, and NewGenerator, lines 51-53
derivedOutput(inputFile) ==
    LET filename == SplitFile(inputFile)
        base == SubSeq(filename, 1, Len(filename) - Len(Ext(filename)))
    IN  JoinPath(SplitDir(inputFile), base \o <<"_gen", ".", "go">>)

Invocations == {1, 2}

\* the input paths of the batch
PathSamples ==
    { <<"svc", ".", "go">>,
      <<"svc", ".", "txt">>,
      <<"svc">>,
      <<"svc", ".", "v2", ".", "go">>,
      <<"cache", ".", "go">>,
      <<"api", "/", "svc", ".", "go">> }

\* the input files of the batch: one struct, two structs, none, unparsable
BatchInputs ==
    { File(Pkg, <<MarkedSvc>>), File(Pkg, <<MarkedSvc, MarkedCache>>), File(Pkg, <<>>), BadFile }

AllPaths == PathSamples \cup {derivedOutput(path) : path \in PathSamples}

\* the variables of a single run, which no invocation of the batch touches
runVars == <<input, fs, prior, stage, err, PackageName, structs, code,
             formattedCode, force, exit, run, prevExit, call, made>>

\* main, lines 25-37: the Generator of the invocation, its OutputFile derived
\* from its InputFile
Derive(p) ==
    /\ procs[p].stage = "New"
    /\ procs' = [procs EXCEPT ![p].OutputFile = derivedOutput(procs[p].InputFile),
                              ![p].stage = "Idle"]
    /\ UNCHANGED <<disk, runVars>>

\* Generate, lines 65-71: the input file is read and parsed
Parse(p) ==
    /\ procs[p].stage = "Idle"
    /\ LET node == disk[procs[p].InputFile].content
       IN  procs' = [procs EXCEPT ![p].node = node,
                                  ![p].stage = IF node.ok THEN "Parsed" ELSE "Failed"]
    /\ UNCHANGED <<disk, runVars>>

\* Generate, lines 74-166: the structs extracted, the template executed and
\* the text formatted
Prepare(p) ==
    /\ procs[p].stage = "Parsed"
    /\ LET node == procs[p].node
           found == structsOfDecls(node.decls, node.name)
           text == generateCode(node.name, found)
       IN  IF Len(found) = 0 \/ ~formatOK(text)
           THEN procs' = [procs EXCEPT ![p].stage = "Failed"]
           ELSE procs' = [procs EXCEPT ![p].formattedCode = formatSource(text),
                                       ![p].stage = "Formatted"]
    /\ UNCHANGED <<disk, runVars>>

\* Generate, line 169: os.WriteFile opens OutputFile, which empties the file
OpenOutput(p) ==
    /\ procs[p].stage = "Formatted"
    /\ disk' = [disk EXCEPT ![procs[p].OutputFile] = Present(<<>>)]
    /\ procs' = [procs EXCEPT ![p].stage = "Opened"]
    /\ UNCHANGED runVars

\* Generate, lines 169-174: os.WriteFile writes the text from the start of
\* the file, over what the file holds by then
WriteOutput(p) ==
    /\ procs[p].stage = "Opened"
    /\ LET data == procs[p].formattedCode
           held == disk[procs[p].OutputFile].content
       IN  disk' = [disk EXCEPT ![procs[p].OutputFile] =
                        Present(data \o SubSeq(held, Len(data) + 1, Len(held)))]
    /\ procs' = [procs EXCEPT ![p].stage = "Written"]
    /\ UNCHANGED runVars

NextBatch ==
    \E p \in Invocations :
        \/ Derive(p)
        \/ Parse(p)
        \/ Prepare(p)
        \/ OpenOutput(p)
        \/ WriteOutput(p)

\* two invocations on two different input paths, every input file in place
InitBatch ==
    /\ \E paths \in [Invocations -> PathSamples] :
        \E files \in [Invocations -> BatchInputs] :
            /\ paths[1] # paths[2]
            /\ procs = [p \in Invocations |->
                            [InputFile |-> paths[p], OutputFile |-> <<>>, stage |-> "New",
                             node |-> BadFile, formattedCode |-> <<>>]]
            /\ disk = [path \in AllPaths |->
                            IF \E p \in Invocations : paths[p] = path
                            THEN Present(files[CHOOSE p \in Invocations : paths[p] = path])
                            ELSE Absent]
    /\ input = BadFile
    /\ fs = Absent
    /\ prior = Absent
    /\ stage = "Idle"
    /\ err = NoErr
    /\ PackageName = <<>>
    /\ structs = <<>>
    /\ code = <<>>
    /\ formattedCode = <<>>
    /\ force = FALSE
    /\ exit = Nil
    /\ run = 1
    /\ prevExit = Nil
    /\ call = Nil
    /\ made = Nil

SpecBatch == InitBatch /\ [][NextBatch]_vars

(***************************************************************************)
(* Properties of a run and of the destination file.                        *)
(***************************************************************************)
\* what the declarations say, read without the generator: a struct type whose
\* declaration has a doc comment in which the directive occurs
carriesDirective(decl) ==
    /\ decl.kind = "GenDecl" /\ decl.tok = "type"
    /\ decl.doc # Nil
    /\ \E i \in 1..Len(decl.doc.list) : Contains(decl.doc.list[i], Directive)

specsOf(decl) == IF decl.kind = "GenDecl" THEN decl.specs ELSE <<>>

markedStructs(file) ==
    {p \in UNION {{<<i, j>> : j \in 1..Len(specsOf(file.decls[i]))} : i \in 1..Len(file.decls)} :
        /\ carriesDirective(file.decls[p[1]])
        /\ file.decls[p[1]].specs[p[2]].type.kind = "StructType"}

reachedWriter == stage = "Written" \/ err = WriteErr

\* C1: when a file exists at the destination as the run starts and -force was
\* not given, the run reports success and the destination is not written: it
\* is what it was, whatever the run would have generated.
C1_SkipIfExists ==
    (prior.exists /\ ~force) =>
        /\ fs = prior
        /\ (reachedWriter => exit = Exit(0))

\* C2: on an input in which no struct declaration carries the directive,
\* Generate returns the no-structs error and the destination is neither created
\* nor modified.
C2_NoMatchLeavesDestination ==
    (input.ok /\ markedStructs(input) = {} /\ ~force) =>
        /\ fs = prior
        /\ stage \in {"Idle", "Parsed", "Failed"}
        /\ (stage = "Failed" => err = NoMatchErr /\ exit = Exit(1))

C2_Witness ==
    /\ err = NoMatchErr
    /\ Len(input.decls) = MaxDecls
    /\ \E i \in 1..Len(input.decls) : carriesDirective(input.decls[i])
    /\ \E i \in 1..Len(input.decls) :
            input.decls[i].kind = "GenDecl" /\ input.decls[i].tok = "type"
                /\ ~carriesDirective(input.decls[i])
    /\ prior.exists /\ fs = prior

StageRank(s) ==
    CASE s = "Idle" -> 0 [] s = "Parsed" -> 1 [] s = "Extracted" -> 2
      [] s = "Rendered" -> 3 [] s = "Formatted" -> 4 [] s = "Written" -> 5
      [] s = "Failed" -> 6

\* C3: within one invocation the pipeline only moves one stage forward, or
\* to Failed; once Failed nothing more runs and the destination is not
\* touched; the destination changes only in the step that leaves Formatted,
\* which is reached only with the struct records, the rendered text and its
\* formatted form in hand.
C3_PipelineForward ==
    [][run' = run =>
        /\ \/ stage' = stage
           \/ stage # "Written" /\ stage' = "Failed"
           \/ stage # "Failed" /\ StageRank(stage') = StageRank(stage) + 1
        /\ (stage = "Failed" =>
                UNCHANGED <<fs, stage, err, structs, code, formattedCode>>)
        /\ (fs' # fs =>
                /\ stage = "Formatted"
                /\ input.ok /\ Len(structs) > 0
                /\ code = generateCode(PackageName, structs)
                /\ formatOK(code) /\ formattedCode = formatSource(code))]_vars

C3_Witness ==
    /\ stage = "Failed" /\ err = FormatErr
    /\ prior.exists /\ fs = prior
    /\ code # <<>> /\ formattedCode = <<>>

\* C4: the destination is always what it was when the run started (absent, or
\* its complete previous content) or the complete formatted output; a failed
\* write leaves no partial file.
C4_NoPartialFile ==
    \/ fs = prior
    \/ stage = "Written" /\ fs = Present(formattedCode)

\* the text a fresh run on the input writes
freshOutput(file) ==
    formatSource(generateCode(file.name, structsOfDecls(file.decls, file.name)))

\* C9: when a run succeeded, the next run on the unchanged input leaves the
\* destination byte-identical without -force, and with -force succeeds and
\* rewrites it with the text of a fresh run.
C9_Regeneration ==
    (run > 1 /\ prevExit = Exit(0)) =>
        /\ ~force => fs = prior
        /\ (force /\ exit # Nil) => exit = Exit(0) /\ stage = "Written"
                                        /\ fs = Present(freshOutput(input))

(***************************************************************************)
(* Properties of the emitted text.                                         *)
(***************************************************************************)
typeSpecAt(file, p) == file.decls[p[1]].specs[p[2]]

structNamed(ss, name) == ss[CHOOSE i \in 1..Len(ss) : ss[i].Name = name]

afterExtract == stage \in {"Extracted", "Rendered", "Formatted", "Written"}
afterRender == stage \in {"Rendered", "Formatted", "Written"}

\* the exported names of the named fields, as declared
RECURSIVE exportedFieldNames(_)
exportedFieldNames(fields) ==
    IF Len(fields) = 0 THEN <<>>
    ELSE SelectSeq(fields[1].names, IsExported) \o exportedFieldNames(Tail(fields))

\* those of them declared with a pointer type
RECURSIVE pointerFieldNames(_)
pointerFieldNames(fields) ==
    IF Len(fields) = 0 THEN <<>>
    ELSE (IF fields[1].type.kind = "StarExpr"
          THEN SelectSeq(fields[1].names, IsExported) ELSE <<>>)
            \o pointerFieldNames(Tail(fields))

\* the members isValid<name>Params tests for nil, in the order of the tests
checkedMembers(body) ==
    LET tests == SelectSeq(body, LAMBDA line : HasPrefix(line, IfNilPrefix))
    IN  [i \in 1..Len(tests) |-> testedMember(tests[i])]

\* C5: the written <Struct>Params has one member for each exported named
\* field of the struct, in declaration order, and isValid<Struct>Params tests
\* for nil exactly those of them that have a pointer type.
C5_MembersAndChecks ==
    stage = "Written" =>
        \A p \in markedStructs(input) :
            LET ts == typeSpecAt(input, p)
            IN  /\ memberNames(paramsMembers(fs.content, ts.name))
                        = exportedFieldNames(ts.type.fields)
                /\ checkedMembers(validatorBody(fs.content, ts.name))
                        = pointerFieldNames(ts.type.fields)

\* the name an embedded field goes by: that of its type
RECURSIVE embeddedName(_)
embeddedName(type) ==
    CASE type.kind = "Ident" -> type.name
      [] type.kind = "StarExpr" -> embeddedName(type.x)
      [] type.kind = "SelectorExpr" -> type.sel

\* the fields the generator must leave out: unexported or embedded
hiddenNames(fields) ==
    UNION {IF Len(fields[i].names) = 0 THEN {embeddedName(fields[i].type)}
           ELSE {fields[i].names[j] : j \in {k \in 1..Len(fields[i].names) :
                                                ~IsExported(fields[i].names[k])}} :
           i \in 1..Len(fields)}

\* lines 318-322 as emitted: the lines of New<name> that copy a field
copiedLines(text, name) ==
    SelectSeq(blockAfter(text, <<"func", " ", "New">> \o name),
              LAMBDA line : HasPrefix(line, <<"\t", "\t">>) /\ Contains(line, <<":", " ">>))

copiedTo(line) == SubSeq(line, 3, Index(line, <<":", " ">>) - 1)

copiedFrom(line) == SubSeq(line, Index(line, <<"params", ".">>) + 2, Len(line) - 1)

\* every field name the text emitted for the struct has
emittedFieldNames(text, name) ==
    LET members == memberNames(paramsMembers(text, name))
        copies == copiedLines(text, name)
        checks == checkedMembers(validatorBody(text, name))
    IN  {members[i] : i \in 1..Len(members)}
            \cup {copiedTo(copies[i]) : i \in 1..Len(copies)}
            \cup {copiedFrom(copies[i]) : i \in 1..Len(copies)}
            \cup {checks[i] : i \in 1..Len(checks)}

\* C6: a field that is unexported or embedded, pointer or not, is in neither
\* the extracted field list nor the emitted aggregate, constructor or
\* validator, nor in the written file.
C6_HiddenFieldsAbsent ==
    \A p \in markedStructs(input) :
        LET ts == typeSpecAt(input, p)
            hidden == hiddenNames(ts.type.fields)
            info == structNamed(structs, ts.name)
        IN  /\ afterExtract =>
                \A i \in 1..Len(info.Fields) : info.Fields[i].Name \notin hidden
            /\ afterRender => emittedFieldNames(code, ts.name) \cap hidden = {}
            /\ stage = "Written" => emittedFieldNames(fs.content, ts.name) \cap hidden = {}

C6_Witness ==
    /\ stage = "Written"
    /\ \E p \in markedStructs(input) :
        LET fields == typeSpecAt(input, p).type.fields
        IN  /\ \E i \in 1..Len(fields) :
                    /\ Len(fields[i].names) > 0 /\ ~IsExported(fields[i].names[1])
                    /\ fields[i].type.kind = "StarExpr"
            /\ emittedFieldNames(fs.content, typeSpecAt(input, p).name) # {}

(***************************************************************************)
(* Properties of the type-parameter lists.                                 *)
(***************************************************************************)
\* the names a type-parameter list declares, in order
RECURSIVE declaredNames(_)
declaredNames(list) ==
    IF Len(list) = 0 THEN <<>> ELSE list[1].names \o declaredNames(Tail(list))

\* the list as written where the type is used: the names alone
namesForm(list) == <<"[">> \o Join(declaredNames(list), <<",", " ">>) \o <<"]">>

firstLineWith(text, prefix) ==
    LET starts == {i \in 1..Len(text) : HasPrefix(text[i], prefix)}
    IN  IF starts = {} THEN <<>> ELSE text[CHOOSE i \in starts : \A j \in starts : i <= j]

\* C7: for a generic struct S with type-parameter list D, SParams, NewS and
\* isValidSParams are declared with D, and the argument type, the returned
\* type, the composite literal and the call of the validator use the names of
\* D; for a struct that is not generic there is no list at any of these places.
C7_GenericForms ==
    afterRender =>
        \A p \in markedStructs(input) :
            LET ts == typeSpecAt(input, p)
                n == ts.name
                generic == ts.typeParams # Nil
                D == IF generic THEN extractTypeParams(ts.typeParams) ELSE <<>>
                N == IF generic THEN namesForm(ts.typeParams.list) ELSE <<>>
            IN  /\ firstLineWith(code, <<"type", " ">> \o n \o <<"Params">>)
                    = <<"type", " ">> \o n \o <<"Params">> \o D \o <<" ", "struct", " ", "{">>
                /\ firstLineWith(code, <<"func", " ", "New">> \o n)
                    = <<"func", " ", "New">> \o n \o D \o <<"(", "params", " ">> \o n
                        \o <<"Params">> \o N \o <<")", " ", "(", "*">> \o n \o N
                        \o <<",", " ", "error", ")", " ", "{">>
                /\ firstLineWith(blockAfter(code, <<"func", " ", "New">> \o n),
                                 <<"\t", "if", " ", "err">>)
                    = <<"\t", "if", " ", "err", " ", ":=", " ", "isValid">> \o n
                        \o <<"Params">> \o N
                        \o <<"(", "params", ")", ";", " ", "err", " ", "!=", " ", "nil", " ", "{">>
                /\ firstLineWith(blockAfter(code, <<"func", " ", "New">> \o n),
                                 <<"\t", "return", " ", "&">>)
                    = <<"\t", "return", " ", "&">> \o n \o N \o <<"{">>
                /\ firstLineWith(code, <<"func", " ", "isValid">> \o n)
                    = <<"func", " ", "isValid">> \o n \o <<"Params">> \o D
                        \o <<"(", "params", " ">> \o n \o <<"Params">> \o N
                        \o <<")", " ", "error", " ", "{">>

\* the type expressions extractType renders without its fallback
RECURSIVE renderable(_)
renderable(expr) ==
    CASE expr.kind \in {"Ident", "SelectorExpr", "InterfaceType"} -> TRUE
      [] expr.kind = "StarExpr" -> renderable(expr.x)
      [] expr.kind = "ArrayType" -> renderable(expr.elt)
      [] expr.kind = "MapType" -> renderable(expr.key) /\ renderable(expr.value)
      [] expr.kind = "IndexExpr" -> renderable(expr.x) /\ renderable(expr.index)
      [] expr.kind = "IndexListExpr" ->
            renderable(expr.x)
                /\ \A i \in 1..Len(expr.indices) : renderable(expr.indices[i])
      [] OTHER -> FALSE

\* C8: for the type-parameter list of a generic struct, with constraints
\* extractType can render, extractTypeParamNames of extractTypeParams of the
\* list is the declared names, in order, joined by ", " in brackets.
C8_NamesProjection ==
    afterExtract =>
        \A p \in markedStructs(input) :
            LET ts == typeSpecAt(input, p)
                info == structNamed(structs, ts.name)
            IN  (/\ ts.typeParams # Nil
                 /\ \A i \in 1..Len(ts.typeParams.list) : renderable(ts.typeParams.list[i].type))
                => /\ info.IsGeneric
                   /\ info.TypeParams = extractTypeParams(ts.typeParams)
                   /\ extractTypeParamNames(info.TypeParams) = namesForm(ts.typeParams.list)

(***************************************************************************)
(* Properties of the emitted validator.                                    *)
(***************************************************************************)
\* the type the struct declares for the field of that name
declaredType(fields, name) ==
    fields[CHOOSE i \in 1..Len(fields) :
                \E j \in 1..Len(fields[i].names) : fields[i].names[j] = name].type

\* the failures a call must report: one for each member of pointer kind that
\* is nil, in the order of the members
RECURSIVE requiredFailures(_, _, _)
requiredFailures(members, fields, params) ==
    IF Len(members) = 0 THEN <<>>
    ELSE (IF declaredType(fields, members[1]).kind = "StarExpr" /\ params[members[1]] = "zero"
          THEN <<members[1] \o <<" is required">>>> ELSE <<>>)
            \o requiredFailures(Tail(members), fields, params)

calledStruct ==
    typeSpecAt(input, CHOOSE p \in markedStructs(input) : typeSpecAt(input, p).name = call.name)

\* C10: a call of isValid<Struct>Params tests every member of pointer kind,
\* reports "<Field> is required" for each one that is nil, in declaration
\* order, reports nothing for another member, and returns the join of the
\* failures: nil exactly when there is none.
C10_ValidatorReportsAll ==
    call # Nil =>
        LET members == memberNames(paramsMembers(fs.content, call.name))
            required == requiredFailures(members, calledStruct.type.fields, call.params)
        IN  /\ call.out.returned
            /\ call.out.errs = required
            /\ (call.out.result = Nil) = (Len(required) = 0)
            /\ (call.out.result # Nil => call.out.result.errs = required)

C10_Witness ==
    /\ call # Nil
    /\ Len(call.out.errs) = 2
    /\ call.out.result # Nil

(***************************************************************************)
(* Properties of the emitted constructor.                                  *)
(***************************************************************************)
\* the fields the generator extracted for the struct, each with the value the
\* aggregate holds under the field's name
copiedByName(name, params) ==
    LET fields == structNamed(structs, name).Fields
    IN  {<<fields[i].Name, params[fields[i].Name]>> : i \in 1..Len(fields)}

\* what the validator of the struct returns for the aggregate
validatorResult(name, params) ==
    runValidator(validatorBody(fs.content, name), nilness(params), FALSE, FALSE, <<>>).result

\* C11: a call of New<Struct> calls the validator of the struct first; when
\* the validator returns a failure the call returns no instance and that
\* failure, unchanged; when it returns none the call returns no failure and
\* a new instance of the struct in which every extracted field holds the
\* value of the aggregate's member of the same name.  It returns an instance
\* or a failure, never both and never neither.
C11_ConstructorValidatesThenCopies ==
    made # Nil =>
        LET v == validatorResult(made.name, made.params)
        IN  /\ made.out.returned
            /\ made.out.validated = <<made.name>>
            /\ v # Nil => made.out.instance = Nil /\ made.out.err = v
            /\ v = Nil =>
                    /\ made.out.err = Nil
                    /\ made.out.instance # Nil
                    /\ made.out.instance.type = made.name
                    /\ made.out.instance.fields = copiedByName(made.name, made.params)
            /\ (made.out.instance = Nil) # (made.out.err = Nil)

\* a call with a nil pointer member: the failure comes back, no instance
C11_Witness ==
    /\ made # Nil
    /\ made.out.err # Nil
    /\ made.out.instance = Nil
    /\ \E m \in DOMAIN made.params : ~made.params[m].isNil

(***************************************************************************)
(* Properties of the directive test.                                       *)
(***************************************************************************)
\* the text "//go:generate" stands somewhere in the comment
occursIn(comment) ==
    \E k \in 1..(Len(comment) - 1) : comment[k] = "//" /\ comment[k + 1] = "go:generate"

occursInDoc(doc) == doc # Nil /\ \E i \in 1..Len(doc.list) : occursIn(doc.list[i])

\* the struct types of the file, each with the doc comment of the declaration
\* that encloses it
structSpecs(file) ==
    {p \in UNION {{<<i, j>> : j \in 1..Len(specsOf(file.decls[i]))} : i \in 1..Len(file.decls)} :
        /\ file.decls[p[1]].tok = "type"
        /\ file.decls[p[1]].specs[p[2]].type.kind = "StructType"}

extracted == afterExtract \/ err = NoMatchErr

\* C12: hasGenerateDirective is true exactly for a doc comment that is there
\* and has a comment in whose text "//go:generate" occurs; and the structs
\* Generate extracts are exactly those whose enclosing declaration has such a
\* doc comment.
C12_DirectiveIsSubstring ==
    input.ok =>
        /\ \A i \in 1..Len(input.decls) :
                input.decls[i].kind = "GenDecl" =>
                    hasGenerateDirective(input.decls[i].doc) = occursInDoc(input.decls[i].doc)
        /\ extracted =>
                {structs[i].Name : i \in 1..Len(structs)}
                    = {typeSpecAt(input, p).name :
                        p \in {q \in structSpecs(input) : occursInDoc(input.decls[q[1]].doc)}}

\* two structs extracted from a group whose doc comment has the directive
\* inside its second comment only
C12_Witness ==
    /\ stage = "Extracted"
    /\ Len(structs) = 2
    /\ Len(input.decls[1].doc.list) = 2
    /\ ~occursIn(input.decls[1].doc.list[1])
    /\ occursIn(input.decls[1].doc.list[2])
    /\ ~HasPrefix(input.decls[1].doc.list[2], Directive)

(***************************************************************************)
(* Properties of the layout of the written file.                           *)
(***************************************************************************)
HeaderLine == <<"// ", "Code generated by validation-gen; DO NOT EDIT.">>

\* the names of the structs that carry the directive, in declaration order
RECURSIVE markedNamesOfSpecs(_)
markedNamesOfSpecs(specs) ==
    IF Len(specs) = 0 THEN <<>>
    ELSE (IF specs[1].type.kind = "StructType" THEN <<specs[1].name>> ELSE <<>>)
            \o markedNamesOfSpecs(Tail(specs))

RECURSIVE markedNamesOfDecls(_)
markedNamesOfDecls(decls) ==
    IF Len(decls) = 0 THEN <<>>
    ELSE (IF carriesDirective(decls[1]) THEN markedNamesOfSpecs(decls[1].specs) ELSE <<>>)
            \o markedNamesOfDecls(Tail(decls))

\* a line that opens a type or a function declaration
opensDecl(line) == HasPrefix(line, <<"type", " ">>) \/ HasPrefix(line, <<"func", " ">>)

\* what a declaration line declares: the aggregate, the constructor or the
\* validator of a struct, or something else
declared(line) ==
    IF HasPrefix(line, <<"type", " ">>) /\ Len(line) >= 4 /\ line[4] = "Params"
    THEN <<"Params", <<line[3]>> >>
    ELSE IF HasPrefix(line, <<"func", " ", "New">>) /\ Len(line) >= 4
    THEN <<"New", <<line[4]>> >>
    ELSE IF HasPrefix(line, <<"func", " ", "isValid">>) /\ Len(line) >= 5 /\ line[5] = "Params"
    THEN <<"isValid", <<line[4]>> >>
    ELSE <<"other", line>>

\* the declarations of a text, in order
declarationsOf(text) ==
    LET opening == SelectSeq(text, opensDecl)
    IN  [i \in 1..Len(opening) |-> declared(opening[i])]

\* a triad for each name, in order
triadsOf(names) ==
    [i \in 1..(3 * Len(names)) |->
        << CASE i % 3 = 1 -> "Params" [] i % 3 = 2 -> "New" [] OTHER -> "isValid",
           names[(i + 2) \div 3] >>]

linesAt(text, P(_)) == {i \in 1..Len(text) : P(text[i])}

isHeader(line) == line = HeaderLine

isPackage(line) == HasPrefix(line, <<"package", " ">>)

\* C13: the written file of an input with k structs that carry the directive
\* has the do-not-edit header once, then the package clause of the input
\* once, then exactly k triads of aggregate, constructor and validator, one
\* for each of those structs and for nothing else, in declaration order.
C13_HeaderOnceThenTriads ==
    stage = "Written" =>
        LET text == fs.content
            names == markedNamesOfDecls(input.decls)
        IN  /\ Len(names) >= 1
            /\ linesAt(text, isHeader) = {1}
            /\ Cardinality(linesAt(text, isPackage)) = 1
            /\ \A p \in linesAt(text, isPackage) :
                    /\ text[p] = <<"package", " ">> \o input.name
                    /\ \A d \in linesAt(text, opensDecl) : 1 < p /\ p < d
            /\ declarationsOf(text) = triadsOf(names)

\* a written file for two structs of different names
C13_Witness ==
    /\ stage = "Written"
    /\ Len(structs) = 2
    /\ structs[1].Name # structs[2].Name
    /\ Len(declarationsOf(fs.content)) = 6

(***************************************************************************)
(* Properties of the extracted field types.                                *)
(***************************************************************************)
\* the text of a type expression in the input file
RECURSIVE sourceText(_)
sourceText(expr) ==
    CASE expr.kind = "Ident" -> expr.name
      [] expr.kind = "BasicLit" -> expr.value
      [] expr.kind = "Ellipsis" -> <<"...">>
      [] expr.kind = "SelectorExpr" -> sourceText(expr.x) \o <<".">> \o expr.sel
      [] expr.kind = "StarExpr" -> <<"*">> \o sourceText(expr.x)
      [] expr.kind = "ArrayType" ->
            <<"[">> \o (IF expr.len = Nil THEN <<>> ELSE sourceText(expr.len)) \o <<"]">>
                \o sourceText(expr.elt)
      [] expr.kind = "MapType" ->
            <<"map", "[">> \o sourceText(expr.key) \o <<"]">> \o sourceText(expr.value)
      [] expr.kind = "InterfaceType" -> <<"interface", "{", "}">>
      [] expr.kind = "FuncType" -> <<"func", "(", ")">>
      [] expr.kind = "IndexExpr" ->
            sourceText(expr.x) \o <<"[">> \o sourceText(expr.index) \o <<"]">>

\* the pointer indirections a type expression begins with, and what is under
\* them
RECURSIVE indirections(_)
indirections(expr) == IF expr.kind = "StarExpr" THEN 1 + indirections(expr.x) ELSE 0

RECURSIVE underlying(_)
underlying(expr) == IF expr.kind = "StarExpr" THEN underlying(expr.x) ELSE expr

\* the stars a text begins with, and the text after them
RECURSIVE leadingStars(_)
leadingStars(text) ==
    IF Len(text) > 0 /\ text[1] = "*" THEN 1 + leadingStars(Tail(text)) ELSE 0

afterStars(text) == SubSeq(text, leadingStars(text) + 1, Len(text))

\* the field declarations of a struct for which a record is extracted
recorded(fields) ==
    {i \in 1..Len(fields) : Len(fields[i].names) > 0 /\ IsExported(fields[i].names[1])}

memberLineOf(text, struct, field) ==
    LET lines == paramsMembers(text, struct)
    IN  lines[CHOOSE i \in 1..Len(lines) : memberName(lines[i]) = field]

\* C14: for an exported named field whose type begins with k pointer
\* indirections, the extracted record has IsPointer = (k >= 1) and as Type
\* the rendering of the type without its first star; so the member emitted in
\* the aggregate has exactly k leading stars and the underlying type of the
\* field.
C14_PointerLevels ==
    \A p \in markedStructs(input) :
        LET ts == typeSpecAt(input, p)
            fields == ts.type.fields
        IN  \A i \in recorded(fields) :
                LET k == indirections(fields[i].type)
                    info == structNamed(structs, ts.name).Fields
                    rec == info[CHOOSE j \in 1..Len(info) : info[j].Name = fields[i].names[1]]
                IN  /\ afterExtract =>
                        /\ rec.IsPointer = (k >= 1)
                        /\ k = 0 => rec.Type = extractType(fields[i].type)
                        /\ k >= 1 => rec.Type = Tail(extractType(fields[i].type))
                        /\ k >= 1 => leadingStars(rec.Type) >= k - 1
                    /\ afterRender =>
                        LET type == memberType(memberLineOf(code, ts.name, fields[i].names[1]))
                        IN  /\ leadingStars(type) = k
                            /\ afterStars(type) = sourceText(underlying(fields[i].type))

\* the type expressions a type expression holds, itself included
RECURSIVE subExprs(_)
subExprs(expr) ==
    {expr} \cup
        CASE expr.kind = "StarExpr" -> subExprs(expr.x)
          [] expr.kind = "ArrayType" -> subExprs(expr.elt)
          [] expr.kind = "MapType" -> subExprs(expr.key) \cup subExprs(expr.value)
          [] expr.kind = "IndexExpr" -> subExprs(expr.x) \cup subExprs(expr.index)
          [] OTHER -> {}

\* C15: extractType renders an array type of length L and element type E as
\* "[" + the text of L + "]" + extractType(E), whatever expression L is: an
\* array is never rendered as the slice "[]" + extractType(E).
C15_ArrayLengthVerbatim ==
    afterExtract =>
        \A p \in markedStructs(input) :
            \A i \in recorded(typeSpecAt(input, p).type.fields) :
                \A e \in subExprs(typeSpecAt(input, p).type.fields[i].type) :
                    (e.kind = "ArrayType" /\ e.len # Nil) =>
                        /\ extractType(e) = <<"[">> \o sourceText(e.len) \o <<"]">>
                                                \o extractType(e.elt)
                        /\ extractType(e) # <<"[", "]">> \o extractType(e.elt)

(***************************************************************************)
(* Properties of a batch.                                                  *)
(***************************************************************************)
derived(p) == procs[p].stage # "New"

finished(p) == procs[p].stage \in {"Written", "Failed"}

\* the text the invocation writes when it runs alone: that of its own input
aloneOutput(p) ==
    LET node == procs[p].node
    IN  formatSource(generateCode(node.name, structsOfDecls(node.decls, node.name)))

\* C16: two invocations on different input paths, each with its derived
\* output path, in any interleaving of their steps: the two destinations
\* differ, a step of one leaves the destination of the other as it is, and
\* when both have finished each destination written holds the text its
\* invocation writes when run alone.
C16_BatchIndependent ==
    [][ \A p, q \in Invocations :
            p # q =>
                /\ (derived(p) /\ derived(q)) => procs[p].OutputFile # procs[q].OutputFile
                /\ (procs'[p] # procs[p] /\ derived(q)) =>
                        disk'[procs[q].OutputFile] = disk[procs[q].OutputFile]
                /\ (finished(p)' /\ finished(q)' /\ procs'[p].stage = "Written") =>
                        disk'[procs'[p].OutputFile] = Present(aloneOutput(p)) ]_vars

(***************************************************************************)
(* Properties of field declarations with several names.                    *)
(***************************************************************************)
\* the records extracted for the names of one field declaration
recordsOf(info, field) ==
    {j \in 1..Len(info) : \E n \in 1..Len(field.names) : info[j].Name = field.names[n]}

\* C17: for a field declaration with several names and one type, extraction
\* looks at the first name only: there is at most one record for the
\* declaration, it is for the first name and only when that name is
\* exported; a later name has no record even when it is exported, and no name
\* has one when the first name is unexported.
C17_FirstNameOnly ==
    afterExtract =>
        \A p \in markedStructs(input) :
            LET ts == typeSpecAt(input, p)
                fields == ts.type.fields
                info == structNamed(structs, ts.name).Fields
            IN  \A i \in 1..Len(fields) :
                    Len(fields[i].names) >= 2 =>
                        LET own == recordsOf(info, fields[i])
                        IN  /\ Cardinality(own) <= 1
                            /\ \A j \in own : info[j].Name = fields[i].names[1]
                            /\ IsExported(fields[i].names[1]) => own # {}
                            /\ ~IsExported(fields[i].names[1]) => own = {}

\* a struct of two declarations, "Key, Val *Item" and "x, Retry int", for
\* which the one record Key is extracted
C17_Witness ==
    /\ stage = "Extracted"
    /\ Len(structs) = 1
    /\ Len(structs[1].Fields) = 1
    /\ \E i, j \in 1..Len(input.decls[1].specs[1].type.fields) :
            LET fields == input.decls[1].specs[1].type.fields
            IN  /\ Len(fields[i].names) = 2 /\ Len(fields[j].names) = 2
                /\ IsExported(fields[i].names[1]) /\ IsExported(fields[i].names[2])
                /\ ~IsExported(fields[j].names[1]) /\ IsExported(fields[j].names[2])

=============================================================================
